---- MODULE Spec2Model ----
(***************************************************************************)
(* setpass: a self-service password-reset relay (setpass/api.py).          *)
(*                                                                         *)
(* The state is the `user` table behind model.User, the wall clock, the    *)
(* stream of uuid4 values, and the response of the request that has just   *)
(* completed.  Spec runs the request handlers one at a time, each handler  *)
(* as one action; the Response it built is then returned to the client.    *)
(* SpecConc runs them in two workers, each with its own database session:  *)
(* a handler is then a sequence of steps, one per access to the table or   *)
(* to the identity provider, and the steps of the two workers interleave.  *)
(* Its requests are all served at one clock value.                         *)
(***************************************************************************)
EXTENDS Integers, FiniteSets

\* ---------------------------------------------------------------- bounds
MaxTokens == 2       \* uuid4 values drawn in one behaviour
MaxTime == 3         \* last clock value (seconds)

\* CONF.max_attempts and CONF.token_expiration: configuration options read
\* at api.py lines 124 and 132; any value is possible, small ones are used.
max_attempts == 2
token_expiration == 1

\* Pins and passwords are opaque strings that the code only stores and
\* compares for equality: two values of each.  Requests are made for one
\* user_id: a handler reaches a row only through find(token=...) or
\* find(user_id=...), so rows of other users take no part in it.
Users == {1}
Pins == {1, 2}
Passwords == {1, 2}
Tokens == 1..MaxTokens
Times == 0..MaxTime

\* A missing or empty request field (None / '' in Python: both falsy), and a
\* key that is absent from the JSON payload of PUT /token/<user_id>.
Empty == 0
Absent == 0

VARIABLES
    store,      \* the rows of the user table (model.db)
    now,        \* datetime.datetime.utcnow(), in seconds
    minted,     \* how many uuid4 values have been put into the table so far
    last,       \* the request that has just completed, and its response
    redeemed,   \* history: token -> number of redemptions answered 'Password set.'
    wrong_pins, \* history: user_id -> number of redemptions answered 'Wrong pin'
                \* since the record of the user_id was last provisioned
    sess        \* SpecConc: worker -> the request it serves and its session

vars == <<store, now, minted, last, redeemed, wrong_pins, sess>>

\* ------------------------------------------------------------ the table

\* model.User: one row of the table.
User == [user_id : Users, token : Tokens, pin : Pins, password : Passwords,
         attempts : Nat, updated_at : Times]

\* model.User.find(**kwargs): the first row that matches, or None.  The
\* result is a set: empty for None, otherwise the row found (any matching
\* row, as the query states no order).
find_token(db, token) ==
    LET hits == {u \in db : u.token = token}
    IN  IF hits = {} THEN {{}} ELSE {{u} : u \in hits}

find_user_id(db, user_id) ==
    LET hits == {u \in db : u.user_id = user_id}
    IN  IF hits = {} THEN {{}} ELSE {{u} : u \in hits}

\* model.db.session.add(user); commit(): attempts and updated_at take their
\* column defaults (0 and utcnow).  user_id is a unique column: the commit of
\* a second row for the same user_id fails and writes nothing.
DbUniqueViolation(db, user_id) == \E u \in db : u.user_id = user_id

\* (variant: the new row is added to the session and never committed)
DbInsert_not_committed(db, user_id, token, pin, password, t) == db

DbInsert(db, user_id, token, pin, password, t) ==
    db \cup {[user_id |-> user_id, token |-> token, pin |-> pin,
              password |-> password, attempts |-> 0, updated_at |-> t]}

\* commit() of a row that the session loaded as `user` and changed to `new`:
\* an UPDATE of the columns that were changed, on the row of that user_id.
\* When no other session wrote in between this puts `new` in place of `user`.
DbUpdate(db, user, new) ==
    {IF u.user_id = user.user_id
     THEN [user_id |-> u.user_id,
           token |-> IF new.token # user.token THEN new.token ELSE u.token,
           pin |-> IF new.pin # user.pin THEN new.pin ELSE u.pin,
           password |-> IF new.password # user.password
                        THEN new.password ELSE u.password,
           attempts |-> IF new.attempts # user.attempts
                        THEN new.attempts ELSE u.attempts,
           updated_at |-> IF new.updated_at # user.updated_at
                          THEN new.updated_at ELSE u.updated_at]
     ELSE u : u \in db}

\* The row that an UPDATE or DELETE of the session addresses is gone.
DbRowGone(db, user) == \A u \in db : u.user_id # user.user_id

\* model.db.session.delete(user); commit(): a DELETE of the row of that user_id.
\* (variant: the delete is never committed)
DbDelete_not_committed(db, user) == db

DbDelete(db, user) == {u \in db : u.user_id # user.user_id}

\* ------------------------------------------------------- the redemption

\* `user.attempts > CONF.max_attempts`
\* (variants: the threshold one too high; >= for >)
Locked_late(user) == user.attempts > max_attempts + 1

Locked_ge(user) == user.attempts >= max_attempts

Locked(user) == user.attempts > max_attempts

\* `pin != user.pin`, negated
PinMatches(user, pin) == pin = user.pin

\* `delta = utcnow() - user.updated_at; delta.total_seconds() > CONF.token_expiration`
\* (variants: no expiry check; >= for >)
Expired_never(user, t) == FALSE

Expired_ge(user, t) == t - user.updated_at >= token_expiration

Expired(user, t) == t - user.updated_at > token_expiration

\* _increase_attempts(user): user.attempts += 1; commit()
\* (variants: the increment is never committed; -= for +=)
_increase_attempts_not_committed(db, user) == db

_increase_attempts_down(db, user) ==
    DbUpdate(db, user, [user EXCEPT !.attempts = @ - 1])

_increase_attempts(db, user) ==
    DbUpdate(db, user, [user EXCEPT !.attempts = @ + 1])

\* One call of _set_openstack_password(user.user_id, user.password, password):
\* its arguments, and whether the identity provider accepted the change
\* (status 2xx: returns True) or not (raises OpenStackError).
PasswordCall(user, password, accepted) ==
    [user_id |-> user.user_id, old_password |-> user.password,
     new_password |-> password, accepted |-> accepted]

\* _set_password(token, pin, password), given what find(token=token) returned,
\* the clock, and whether the identity provider accepts the change
\* (_set_openstack_password returns True, or raises OpenStackError).
\* The result is the exception raised ("None" for a normal return), the table
\* afterwards, and the call made to the identity provider, if any.
\* (variants: the delete precedes the call to the identity provider, so that
\* the row is gone when the call raises; the pin is compared before the
\* lockout is checked)
_set_password_delete_first(db, found, pin, password, t, accepted) ==
    IF found = {}
    THEN [exc |-> "TokenNotFoundException", db |-> db, call |-> {}]
    ELSE LET user == CHOOSE u \in found : TRUE IN
         IF Locked(user)
         THEN [exc |-> "AccountLocked", db |-> db, call |-> {}]
         ELSE IF ~PinMatches(user, pin)
         THEN [exc |-> "WrongPinException",
               db |-> _increase_attempts(db, user), call |-> {}]
         ELSE IF Expired(user, t)
         THEN [exc |-> "TokenExpiredException", db |-> db, call |-> {}]
         ELSE [exc |-> IF accepted THEN "None" ELSE "OpenStackError",
               db |-> DbDelete(db, user),
               call |-> {PasswordCall(user, password, accepted)}]

_set_password_pin_first(db, found, pin, password, t, accepted) ==
    IF found = {}
    THEN [exc |-> "TokenNotFoundException", db |-> db, call |-> {}]
    ELSE LET user == CHOOSE u \in found : TRUE IN
         IF ~PinMatches(user, pin)
         THEN [exc |-> "WrongPinException",
               db |-> _increase_attempts(db, user), call |-> {}]
         ELSE IF Locked(user)
         THEN [exc |-> "AccountLocked", db |-> db, call |-> {}]
         ELSE IF Expired(user, t)
         THEN [exc |-> "TokenExpiredException", db |-> db, call |-> {}]
         ELSE IF ~accepted
         THEN [exc |-> "OpenStackError", db |-> db,
               call |-> {PasswordCall(user, password, accepted)}]
         ELSE [exc |-> "None", db |-> DbDelete(db, user),
               call |-> {PasswordCall(user, password, accepted)}]

_set_password(db, found, pin, password, t, accepted) ==
    IF found = {}
    THEN [exc |-> "TokenNotFoundException", db |-> db, call |-> {}]
    ELSE LET user == CHOOSE u \in found : TRUE IN
         IF Locked(user)
         THEN [exc |-> "AccountLocked", db |-> db, call |-> {}]
         ELSE IF ~PinMatches(user, pin)
         THEN [exc |-> "WrongPinException",
               db |-> _increase_attempts(db, user), call |-> {}]
         ELSE IF Expired(user, t)
         THEN [exc |-> "TokenExpiredException", db |-> db, call |-> {}]
         ELSE IF ~accepted
         THEN [exc |-> "OpenStackError", db |-> db,
               call |-> {PasswordCall(user, password, accepted)}]
         ELSE [exc |-> "None", db |-> DbDelete(db, user),
               call |-> {PasswordCall(user, password, accepted)}]

\* The except clauses of set_password: exception -> Response.
StatusOf(exc) ==
    CASE exc = "TokenNotFoundException" -> 404
      [] exc = "TokenExpiredException" -> 403
      [] exc = "WrongPinException" -> 403
      [] exc = "OpenStackError" -> 500
      [] exc = "AccountLocked" -> 403
      [] exc = "None" -> 200

BodyOf(exc) ==
    CASE exc = "TokenNotFoundException" -> "Token not found"
      [] exc = "TokenExpiredException" -> "Token expired"
      [] exc = "WrongPinException" -> "Wrong pin"
      [] exc = "OpenStackError" -> "e.message"
      [] exc = "AccountLocked" -> "Account locked, too many wrong attempts!"
      [] exc = "None" -> "Password set."

NoRequest ==
    [op |-> "none", user_id |-> Empty, token |-> Empty, pin |-> Empty,
     password |-> Empty, status |-> 0, body |-> "", user |-> {}, call |-> {}]

\* The completed request: its inputs, the row the handler found, the call it
\* made to the identity provider, and the Response.
Request(op, user_id, token, pin, password, status, body, user, call) ==
    [op |-> op, user_id |-> user_id, token |-> token, pin |-> pin,
     password |-> password, status |-> status, body |-> body,
     user |-> user, call |-> call]

\* History: one more redemption of the record `found` is answered 'Wrong pin'.
\* The count stops at max_attempts + 2, one more than the lockout is meant to
\* allow.
WrongPinAnswered(found) ==
    [user_id \in Users |->
        IF \E u \in found : u.user_id = user_id
        THEN IF wrong_pins[user_id] < max_attempts + 2
             THEN wrong_pins[user_id] + 1 ELSE wrong_pins[user_id]
        ELSE wrong_pins[user_id]]

\* POST / (variant: password and confirm_password are not compared)
set_password_no_confirm(token, password, confirm_password, pin) ==
    /\ last = NoRequest
    /\ IF token = Empty \/ password = Empty \/ confirm_password = Empty \/ pin = Empty
       THEN /\ last' = Request("set_password", Empty, token, pin, Empty,
                               400, "Missing required field!", {}, {})
            /\ UNCHANGED <<store, now, minted, redeemed, wrong_pins, sess>>
       ELSE \E found \in find_token(store, token), accepted \in BOOLEAN :
               LET r == _set_password(store, found, pin, password, now, accepted) IN
               /\ store' = r.db
               /\ last' = Request("set_password", Empty, token, pin, Empty,
                                  StatusOf(r.exc), BodyOf(r.exc), found, r.call)
               /\ redeemed' = IF r.exc = "None"
                              THEN [redeemed EXCEPT ![token] = @ + 1]
                              ELSE redeemed
               /\ wrong_pins' = IF r.exc = "WrongPinException"
                                THEN WrongPinAnswered(found)
                                ELSE wrong_pins
               /\ UNCHANGED <<now, minted, sess>>

\* POST /?token=<token>  (form: password, confirm_password, pin)
set_password(token, password, confirm_password, pin) ==
    /\ last = NoRequest
    /\ IF token = Empty \/ password = Empty \/ confirm_password = Empty \/ pin = Empty
       THEN /\ last' = Request("set_password", Empty, token, pin, Empty,
                               400, "Missing required field!", {}, {})
            /\ UNCHANGED <<store, now, minted, redeemed, wrong_pins, sess>>
       ELSE IF password # confirm_password
       THEN /\ last' = Request("set_password", Empty, token, pin, Empty,
                               400, "Passwords do not match", {}, {})
            /\ UNCHANGED <<store, now, minted, redeemed, wrong_pins, sess>>
       ELSE \E found \in find_token(store, token), accepted \in BOOLEAN :
               LET r == _set_password(store, found, pin, password, now, accepted) IN
               /\ store' = r.db
               /\ last' = Request("set_password", Empty, token, pin, Empty,
                                  StatusOf(r.exc), BodyOf(r.exc), found, r.call)
               /\ redeemed' = IF r.exc = "None"
                              THEN [redeemed EXCEPT ![token] = @ + 1]
                              ELSE redeemed
               /\ wrong_pins' = IF r.exc = "WrongPinException"
                                THEN WrongPinAnswered(found)
                                ELSE wrong_pins
               /\ UNCHANGED <<now, minted, sess>>

\* -------------------------------------------------------- the provisioning

\* user.update_timestamp_and_attempts() of model.User
update_timestamp_and_attempts(user, t) ==
    [user EXCEPT !.attempts = 0, !.updated_at = t]

\* The branch of add for a user_id that has a row: pin and password are taken
\* from the payload when it has them, the token is a new uuid4.
\* (variant: the token is not regenerated)
UpdatedUser_same_token(user, pin, password, token, t) ==
    update_timestamp_and_attempts(
        [user EXCEPT !.pin = IF pin # Absent THEN pin ELSE @,
                     !.password = IF password # Absent THEN password ELSE @], t)

UpdatedUser(user, pin, password, token, t) ==
    update_timestamp_and_attempts(
        [user EXCEPT !.pin = IF pin # Absent THEN pin ELSE @,
                     !.password = IF password # Absent THEN password ELSE @,
                     !.token = token], t)

\* str(uuid.uuid4()): a value no earlier call returned.
uuid4 == minted + 1

\* The credential check of add: 401 when the x-auth-token header is missing
\* ("none"), 403 when _check_admin_token returns False ("rejected"), and 200,
\* the handler goes on, when it returns True ("admin").
Credentials == {"none", "rejected", "admin"}

\* (variant: the result of _check_admin_token is not looked at)
CredentialStatus_unchecked(credential) ==
    IF credential = "none" THEN 401 ELSE 200

CredentialStatus(credential) ==
    IF credential = "none" THEN 401
    ELSE IF credential = "rejected" THEN 403
    ELSE 200

\* PUT /token/<user_id>  (header x-auth-token; JSON body: pin?, password?)
add(user_id, credential, pin, password) ==
    /\ last = NoRequest
    /\ IF CredentialStatus(credential) = 401
       THEN /\ last' = Request("add", user_id, Empty, pin, password,
                               401, "Unauthorized", {}, {})
            /\ UNCHANGED <<store, now, minted, redeemed, wrong_pins, sess>>
       ELSE IF CredentialStatus(credential) = 403
       THEN /\ last' = Request("add", user_id, Empty, pin, password,
                               403, "Forbidden", {}, {})
            /\ UNCHANGED <<store, now, minted, redeemed, wrong_pins, sess>>
       ELSE \E found \in find_user_id(store, user_id) :
               IF found # {}
               THEN LET user == CHOOSE u \in found : TRUE
                        new == UpdatedUser(user, pin, password, uuid4, now) IN
                    /\ minted < MaxTokens
                    /\ store' = DbUpdate(store, user, new)
                    /\ minted' = minted + 1
                    /\ last' = Request("add", user_id, new.token, pin, password,
                                       200, "user.token", found, {})
                    /\ wrong_pins' = [wrong_pins EXCEPT ![user_id] = 0]
                    /\ UNCHANGED <<now, redeemed, sess>>
               ELSE IF pin = Absent \/ password = Absent
               THEN \* payload['pin'] / payload['password'] raises KeyError
                    /\ last' = Request("add", user_id, Empty, pin, password,
                                       500, "KeyError", found, {})
                    /\ UNCHANGED <<store, now, minted, redeemed, wrong_pins, sess>>
               ELSE /\ minted < MaxTokens
                    /\ store' = DbInsert(store, user_id, uuid4, pin, password, now)
                    /\ minted' = minted + 1
                    /\ last' = Request("add", user_id, uuid4, pin, password,
                                       200, "user.token", found, {})
                    /\ wrong_pins' = [wrong_pins EXCEPT ![user_id] = 0]
                    /\ UNCHANGED <<now, redeemed, sess>>

\* ------------------------------------------------------------- the clock

\* Time passes between requests.
Tick ==
    /\ last = NoRequest
    /\ now < MaxTime
    /\ now' = now + 1
    /\ UNCHANGED <<store, minted, last, redeemed, wrong_pins, sess>>

\* The Response is returned to the client; the next request can be served.
Return ==
    /\ last # NoRequest
    /\ last' = NoRequest
    /\ UNCHANGED <<store, now, minted, redeemed, wrong_pins, sess>>

\* ------------------------------------------- the handlers, step by step

Workers == {1, 2}

\* A worker that serves no request.  A worker that serves one holds, besides
\* the row it loaded (user), the values it still needs for its next steps.
Idle ==
    [pc |-> "idle", op |-> "none", user_id |-> Empty, token |-> Empty,
     pin |-> Empty, password |-> Empty, user |-> {}, new |-> {}, call |-> {},
     status |-> 0, body |-> ""]

\* The request `req` is answered: what is kept of it is the operation and the
\* user_id, with the Response and, when that is a 200, the token (the one
\* redeemed, or the one that add returns in the body).
Answer(req, status, body) ==
    [Idle EXCEPT !.pc = "done", !.op = req.op, !.user_id = req.user_id,
                 !.token = IF status = 200 THEN req.token ELSE Empty,
                 !.status = status, !.body = body]

\* The worker has built its Response; its session is closed.
Done(w, status, body) == [sess EXCEPT ![w] = Answer(sess[w], status, body)]

\* set_password up to its first write or call: the form is checked, the row is
\* loaded into the session, and lockout, pin and expiry are checked on it.
set_password_find(w, token, password, confirm_password, pin) ==
    /\ sess[w].pc = "idle"
    /\ LET req == [Idle EXCEPT !.op = "set_password", !.token = token] IN
       IF token = Empty \/ password = Empty \/ confirm_password = Empty \/ pin = Empty
       THEN sess' = [sess EXCEPT ![w] = Answer(req, 400, "Missing required field!")]
       ELSE IF password # confirm_password
       THEN sess' = [sess EXCEPT ![w] = Answer(req, 400, "Passwords do not match")]
       ELSE \E found \in find_token(store, token) :
               LET r == _set_password(store, found, pin, password, now, TRUE) IN
               sess' = [sess EXCEPT ![w] =
                   IF r.exc = "WrongPinException"
                   THEN [req EXCEPT !.pc = "increase", !.user = found]
                   ELSE IF r.exc = "None"
                   THEN [req EXCEPT !.pc = "external", !.user = found,
                                    !.password = password]
                   ELSE Answer(req, StatusOf(r.exc), BodyOf(r.exc))]
    /\ UNCHANGED <<store, now, minted, last, redeemed, wrong_pins>>

\* _increase_attempts: the commit of user.attempts += 1.  An UPDATE that
\* matches no row raises StaleDataError, which set_password does not catch.
set_password_increase(w) ==
    /\ sess[w].pc = "increase"
    /\ LET user == CHOOSE u \in sess[w].user : TRUE IN
       IF DbRowGone(store, user)
       THEN /\ sess' = Done(w, 500, "StaleDataError")
            /\ UNCHANGED <<store, wrong_pins>>
       ELSE /\ store' = _increase_attempts(store, user)
            /\ sess' = Done(w, StatusOf("WrongPinException"), BodyOf("WrongPinException"))
            /\ wrong_pins' = WrongPinAnswered(sess[w].user)
    /\ UNCHANGED <<now, minted, last, redeemed>>

\* _set_openstack_password(user.user_id, user.password, password)
set_password_external(w, accepted) ==
    /\ sess[w].pc = "external"
    /\ LET user == CHOOSE u \in sess[w].user : TRUE
           call == {PasswordCall(user, sess[w].password, accepted)} IN
       IF accepted
       THEN sess' = [sess EXCEPT ![w].pc = "delete", ![w].call = call,
                                 ![w].password = Empty]
       ELSE sess' = Done(w, StatusOf("OpenStackError"), BodyOf("OpenStackError"))
    /\ UNCHANGED <<store, now, minted, last, redeemed, wrong_pins>>

\* model.db.session.delete(user); commit().  A DELETE that matches no row is
\* only warned about.
set_password_delete(w) ==
    /\ sess[w].pc = "delete"
    /\ LET user == CHOOSE u \in sess[w].user : TRUE IN
       store' = DbDelete(store, user)
    /\ sess' = Done(w, StatusOf("None"), BodyOf("None"))
    /\ redeemed' = [redeemed EXCEPT ![sess[w].token] = @ + 1]
    /\ UNCHANGED <<now, minted, last, wrong_pins>>

\* add up to its commit: the credential is checked, the row of user_id is
\* loaded and changed in the session, or a new row is put into the session.
add_find(w, user_id, credential, pin, password) ==
    /\ sess[w].pc = "idle"
    /\ LET req == [Idle EXCEPT !.op = "add", !.user_id = user_id] IN
       IF CredentialStatus(credential) = 401
       THEN /\ sess' = [sess EXCEPT ![w] = Answer(req, 401, "Unauthorized")]
            /\ UNCHANGED minted
       ELSE IF CredentialStatus(credential) = 403
       THEN /\ sess' = [sess EXCEPT ![w] = Answer(req, 403, "Forbidden")]
            /\ UNCHANGED minted
       ELSE \E found \in find_user_id(store, user_id) :
               IF found # {}
               THEN LET user == CHOOSE u \in found : TRUE
                        new == UpdatedUser(user, pin, password, uuid4, now) IN
                    /\ minted < MaxTokens
                    /\ minted' = minted + 1
                    /\ sess' = [sess EXCEPT ![w] =
                          [req EXCEPT !.pc = "commit", !.user = found, !.new = {new},
                                      !.token = new.token]]
               ELSE IF pin = Absent \/ password = Absent
               THEN /\ sess' = [sess EXCEPT ![w] = Answer(req, 500, "KeyError")]
                    /\ UNCHANGED minted
               ELSE /\ minted < MaxTokens
                    /\ minted' = minted + 1
                    /\ sess' = [sess EXCEPT ![w] =
                          [req EXCEPT !.pc = "commit", !.token = uuid4, !.pin = pin,
                                      !.password = password]]
    /\ UNCHANGED <<store, now, last, redeemed, wrong_pins>>

\* model.db.session.commit() of add: the INSERT of the new row, which fails
\* with IntegrityError when user_id has a row by now, or the UPDATE of the row
\* loaded, which fails with StaleDataError when it is gone; add catches neither.
add_commit(w) ==
    /\ sess[w].pc = "commit"
    /\ IF sess[w].user = {}
       THEN IF DbUniqueViolation(store, sess[w].user_id)
            THEN /\ sess' = Done(w, 500, "IntegrityError")
                 /\ UNCHANGED <<store, wrong_pins>>
            ELSE /\ store' = DbInsert(store, sess[w].user_id, sess[w].token,
                                      sess[w].pin, sess[w].password, now)
                 /\ sess' = Done(w, 200, "user.token")
                 /\ wrong_pins' = [wrong_pins EXCEPT ![sess[w].user_id] = 0]
       ELSE LET user == CHOOSE u \in sess[w].user : TRUE
                new == CHOOSE u \in sess[w].new : TRUE IN
            IF DbRowGone(store, user)
            THEN /\ sess' = Done(w, 500, "StaleDataError")
                 /\ UNCHANGED <<store, wrong_pins>>
            ELSE /\ store' = DbUpdate(store, user, new)
                 /\ sess' = Done(w, 200, "user.token")
                 /\ wrong_pins' = [wrong_pins EXCEPT ![sess[w].user_id] = 0]
    /\ UNCHANGED <<now, minted, last, redeemed>>

\* The Response is returned to the client; the worker takes the next request.
return(w) ==
    /\ sess[w].pc = "done"
    /\ sess' = [sess EXCEPT ![w] = Idle]
    /\ UNCHANGED <<store, now, minted, last, redeemed, wrong_pins>>

\* --------------------------------------------------------- specification

Init ==
    /\ store = {}
    /\ now = 0
    /\ minted = 0
    /\ last = NoRequest
    /\ redeemed = [t \in Tokens |-> 0]
    /\ wrong_pins = [user_id \in Users |-> 0]
    /\ sess = [w \in Workers |-> Idle]

SetPassword ==
    \E token \in Tokens \cup {Empty}, password \in Passwords \cup {Empty},
       confirm_password \in Passwords \cup {Empty}, pin \in Pins \cup {Empty} :
        set_password(token, password, confirm_password, pin)

Add ==
    \E user_id \in Users, credential \in Credentials,
       pin \in Pins \cup {Absent}, password \in Passwords \cup {Absent} :
        add(user_id, credential, pin, password)

Next == SetPassword \/ Add \/ Tick \/ Return

Spec == Init /\ [][Next]_vars

SetPasswordFind ==
    \E w \in Workers, token \in Tokens \cup {Empty}, password \in Passwords \cup {Empty},
       confirm_password \in Passwords \cup {Empty}, pin \in Pins \cup {Empty} :
        set_password_find(w, token, password, confirm_password, pin)

SetPasswordIncrease == \E w \in Workers : set_password_increase(w)

SetPasswordExternal ==
    \E w \in Workers, accepted \in BOOLEAN : set_password_external(w, accepted)

SetPasswordDelete == \E w \in Workers : set_password_delete(w)

AddFind ==
    \E w \in Workers, user_id \in Users, credential \in Credentials,
       pin \in Pins \cup {Absent}, password \in Passwords \cup {Absent} :
        add_find(w, user_id, credential, pin, password)

AddCommit == \E w \in Workers : add_commit(w)

ReturnConc == \E w \in Workers : return(w)

NextConc ==
    \/ SetPasswordFind \/ SetPasswordIncrease \/ SetPasswordExternal
    \/ SetPasswordDelete \/ AddFind \/ AddCommit \/ ReturnConc

SpecConc == Init /\ [][NextConc]_vars

\* The shape of the state when the handlers run one at a time.
TypeOK ==
    /\ store \subseteq User
    /\ now \in Times
    /\ minted \in 0..MaxTokens
    /\ \A u \in store : u.attempts \in 0..(max_attempts + 1) /\ u.token <= minted
    /\ wrong_pins \in [Users -> 0..(max_attempts + 1)]

\* ------------------------------------------------------------ properties

\* The request that has just completed reached _set_password.
Redemption == last.op = "set_password" /\ last.status # 400

\* C1: a redemption with the correct pin of a record that is neither locked
\* nor expired, whose password change the identity provider accepts, answers
\* 200 'Password set.' and deletes the record; a token that has been redeemed
\* resolves to no record, every later redemption with it answers 404 'Token
\* not found', and no token is redeemed twice.
C1_RedeemedOnce ==
    /\ \A t \in Tokens :
          /\ redeemed[t] <= 1
          /\ redeemed[t] = 1 => \A u \in store : u.token # t
    /\ Redemption =>
          /\ \A u \in last.user :
                (/\ u.attempts <= max_attempts
                 /\ last.pin = u.pin
                 /\ now - u.updated_at <= token_expiration)
                => /\ last.call # {}
                   /\ \A c \in last.call : c.accepted =>
                         /\ last.status = 200
                         /\ last.body = "Password set."
                         /\ \A v \in store : v.token # last.token
          /\ (redeemed[last.token] >= 1 /\ last.status # 200)
                => last.status = 404 /\ last.body = "Token not found"

\* A redemption of a token that was redeemed before has just been refused.
C1_Witness ==
    /\ Redemption
    /\ last.status = 404
    /\ redeemed[last.token] = 1

\* C2: _set_openstack_password is called only by a redemption whose token
\* resolved to a record with attempts <= max_attempts, the supplied pin equal
\* to the stored one and now - updated_at <= token_expiration, and with that
\* record's user_id and stored password; a redemption that answers 404 or 403
\* has not called it.
C2_CallOnlyWhenValid ==
    /\ last.call # {} =>
          /\ Redemption
          /\ last.user # {}
          /\ \A u \in last.user, c \in last.call :
                /\ u.token = last.token
                /\ u.attempts <= max_attempts
                /\ last.pin = u.pin
                /\ now - u.updated_at <= token_expiration
                /\ c.user_id = u.user_id
                /\ c.old_password = u.password
    /\ (Redemption /\ last.status \in {403, 404}) => last.call = {}

\* The identity provider has just been called, and has refused the change.
C2_Witness ==
    /\ Redemption
    /\ \E c \in last.call : ~c.accepted /\ c.old_password # c.new_password

\* C3: while a record has attempts > max_attempts, every redemption with its
\* token answers 403 'Account locked', with the right pin as with a wrong one,
\* and changes nothing; the record stays as it is until a provisioning call.
C3_LockedStaysLocked ==
    [][\A u \in store : u.attempts > max_attempts =>
          /\ (last'.op = "set_password" /\ last'.status # 400 /\ last'.token = u.token)
                => /\ last'.status = 403
                   /\ last'.body = "Account locked, too many wrong attempts!"
                   /\ last'.call = {}
                   /\ store' = store
          /\ last'.op # "add" => u \in store']_vars

\* A locked record has just refused the right pin.
C3_Witness ==
    /\ Redemption
    /\ last.body = "Account locked, too many wrong attempts!"
    /\ \E u \in last.user : u.pin = last.pin /\ u \in store

\* C4 as stated: once max_attempts wrong pins have been counted against a
\* record, the next redemption answers 'Account locked'.
C4_LockedAfterMaxAttempts ==
    Redemption =>
        \A u \in last.user : u.attempts = max_attempts =>
            last.body = "Account locked, too many wrong attempts!"

\* C4, amended: the redemption that follows max_attempts wrong pins is still
\* checked against the pin (wrong: 403 'Wrong pin', counted); the one that
\* follows max_attempts + 1 wrong pins answers 'Account locked' whatever the pin.
C4_LockedAfterMaxAttemptsPlusOne ==
    Redemption =>
        \A u \in last.user :
            /\ u.attempts <= max_attempts =>
                  /\ last.body # "Account locked, too many wrong attempts!"
                  /\ last.pin # u.pin =>
                        /\ last.status = 403 /\ last.body = "Wrong pin"
                        /\ \E v \in store : v.token = u.token /\ v.attempts = u.attempts + 1
            /\ u.attempts = max_attempts + 1 =>
                  /\ last.status = 403
                  /\ last.body = "Account locked, too many wrong attempts!"

\* The record counts max_attempts + 1 wrong pins and refuses the right one.
C4_Witness ==
    /\ Redemption
    /\ last.body = "Account locked, too many wrong attempts!"
    /\ \E u \in last.user : u.attempts = max_attempts + 1 /\ u.pin = last.pin

\* C5 as stated: every redemption with a wrong pin of a token that resolves
\* to a record adds 1 to the record's attempts.
C5_WrongPinCounts ==
    Redemption =>
        \A u \in last.user : last.pin # u.pin =>
            [u EXCEPT !.attempts = @ + 1] \in store

\* C5, amended: every redemption with a wrong pin of a record that is not
\* locked (attempts <= max_attempts) answers 403 'Wrong pin' and leaves the
\* record in the table with attempts one higher and nothing else changed.
C5_WrongPinCountsUnlessLocked ==
    Redemption =>
        \A u \in last.user : (last.pin # u.pin /\ u.attempts <= max_attempts) =>
            /\ last.status = 403
            /\ last.body = "Wrong pin"
            /\ [u EXCEPT !.attempts = @ + 1] \in store
            /\ u \notin store

\* A wrong pin has just been counted.
C5_Witness ==
    /\ Redemption
    /\ last.body = "Wrong pin"
    /\ \E u \in last.user : [u EXCEPT !.attempts = @ + 1] \in store

\* C6 as stated: the attempts of the record of a user_id never decreases.
C6_AttemptsNeverDecrease ==
    [][\A u \in store, v \in store' :
          u.user_id = v.user_id => v.attempts >= u.attempts]_vars

\* C6, amended: the attempts of the record of a user_id never decreases,
\* except that a provisioning call answered 200 sets it to 0.
C6_AttemptsDecreaseOnlyByAdd ==
    [][\A u \in store, v \in store' :
          u.user_id = v.user_id =>
             \/ v.attempts >= u.attempts
             \/ last'.op = "add" /\ last'.status = 200 /\ v.attempts = 0]_vars

\* A provisioning call has just reset a positive attempts to 0.
C6_Witness ==
    /\ last.op = "add"
    /\ last.status = 200
    /\ \E u \in last.user, v \in store :
          u.attempts > 0 /\ v.user_id = u.user_id /\ v.attempts = 0

\* C7: a redemption with the right pin of a record that is not locked, made
\* when now - updated_at > token_expiration, answers 403 'Token expired', does
\* not call the identity provider and leaves the record as it was; one made
\* when now - updated_at = token_expiration is not refused as expired.
C7_ExpiredKeepsRecord ==
    Redemption =>
        \A u \in last.user : (u.attempts <= max_attempts /\ last.pin = u.pin) =>
            /\ now - u.updated_at > token_expiration =>
                  /\ last.status = 403
                  /\ last.body = "Token expired"
                  /\ last.call = {}
                  /\ u \in store
            /\ now - u.updated_at = token_expiration =>
                  /\ last.body # "Token expired"
                  /\ last.call # {}

\* An expired token has just been refused and its record is still there.
C7_Witness ==
    /\ Redemption
    /\ last.body = "Token expired"
    /\ \E u \in store : u.token = last.token /\ now - u.updated_at = token_expiration + 1

\* C8: an authorized provisioning call for a user_id that has a record
\* answers 200 with a token that differs from the old one and was never
\* redeemed; the record then has that token, attempts 0, updated_at = now, and
\* the pin and the password of the payload where it has them, the old ones
\* where it has not; it is the only record of that user_id.
C8_ReprovisionInPlace ==
    last.op = "add" =>
        \A u \in last.user :
            /\ last.status = 200
            /\ last.token # u.token
            /\ redeemed[last.token] = 0
            /\ \A v \in store : v.user_id = u.user_id =>
                  v = [user_id |-> u.user_id,
                       token |-> last.token,
                       pin |-> IF last.pin # Absent THEN last.pin ELSE u.pin,
                       password |-> IF last.password # Absent
                                    THEN last.password ELSE u.password,
                       attempts |-> 0,
                       updated_at |-> now]
            /\ \E v \in store : v.user_id = u.user_id

\* A locked and expired record has just been provisioned again, pin omitted.
C8_Witness ==
    /\ last.op = "add"
    /\ last.status = 200
    /\ last.pin = Absent
    /\ last.password # Absent
    /\ \E u \in last.user :
          /\ u.attempts > max_attempts
          /\ now - u.updated_at > token_expiration
          /\ u.password # last.password

\* C9: a provisioning call without the credential header answers 401, one
\* whose credential _check_admin_token rejects answers 403, and neither
\* changes the table or draws a token.
C9_UnauthorizedAddWritesNothing ==
    [][\A user_id \in Users, pin \in Pins \cup {Absent},
          password \in Passwords \cup {Absent} :
          /\ add(user_id, "none", pin, password) =>
                /\ last'.status = 401 /\ last'.body = "Unauthorized"
                /\ store' = store /\ minted' = minted
          /\ add(user_id, "rejected", pin, password) =>
                /\ last'.status = 403 /\ last'.body = "Forbidden"
                /\ store' = store /\ minted' = minted]_vars

\* A rejected credential has just been refused while a record exists.
C9_Witness ==
    /\ last.op = "add"
    /\ last.status = 403
    /\ store # {}

\* A provisioning call that passed the credential check and found its payload
\* complete has been answered by worker w.
Provisioned(w) ==
    /\ sess[w].pc = "done"
    /\ sess[w].op = "add"
    /\ sess[w].status \notin {401, 403}
    /\ sess[w].body # "KeyError"

\* C10: the table holds at most one record per user_id, and two provisioning
\* calls for one user_id whose steps interleave end as last-writer-wins on
\* that record: both are answered 200 with their token, and the record holds
\* the token of one of them (no redemption having removed it).
C10_OneRecordLastWriterWins ==
    /\ \A user_id \in Users :
          Cardinality({u \in store : u.user_id = user_id}) <= 1
    /\ (/\ \A w \in Workers : Provisioned(w)
        /\ \A w, x \in Workers : sess[w].user_id = sess[x].user_id
        /\ \A t \in Tokens : redeemed[t] = 0)
       => /\ \A w \in Workers : sess[w].status = 200
          /\ \E u \in store, w \in Workers : u.token = sess[w].token

\* C11: two redemptions of one token whose steps interleave never both
\* succeed: no token is redeemed twice, and no two workers have both had the
\* identity provider accept a change for the same token.
C11_NoDoubleRedemption ==
    /\ \A t \in Tokens : redeemed[t] <= 1
    /\ \A w, x \in Workers :
          (/\ w # x
           /\ sess[w].op = "set_password" /\ sess[x].op = "set_password"
           /\ sess[w].token # Empty /\ sess[w].token = sess[x].token)
          => ~(/\ sess[w].pc = "delete" \/ sess[w].status = 200
               /\ sess[x].pc = "delete" \/ sess[x].status = 200)

\* C12: a redemption that fails (404 'Token not found', 403 'Account locked',
\* 403 'Wrong pin', 403 'Token expired', 500 from the identity provider)
\* deletes no record and adds none, and leaves user_id, token, pin, password
\* and updated_at of every record as they were; attempts is as it was too,
\* except that 'Wrong pin' adds 1 to it on the record of the token.  A record
\* leaves the table only in a redemption answered 200.  After a failure of the
\* identity provider the record is as it was, neither locked nor expired, so
\* that the same token with the same pin can be redeemed.
C12_FailedRedemptionKeepsRecords ==
    [][/\ (last'.op = "set_password" /\ last'.status \notin {200, 400}) =>
             /\ Cardinality(store') = Cardinality(store)
             /\ \A u \in store : \E v \in store' :
                   /\ v.user_id = u.user_id
                   /\ v.token = u.token
                   /\ v.pin = u.pin
                   /\ v.password = u.password
                   /\ v.updated_at = u.updated_at
                   /\ IF last'.body = "Wrong pin" /\ u.token = last'.token
                      THEN v.attempts = u.attempts + 1
                      ELSE v.attempts = u.attempts
       /\ (\E u \in store : \A v \in store' : v.user_id # u.user_id) =>
             /\ last'.op = "set_password"
             /\ last'.status = 200
             /\ last'.body = "Password set."
       /\ (last'.op = "set_password" /\ last'.status = 500) =>
             /\ store' = store
             /\ \E u \in store' :
                   /\ u.token = last'.token
                   /\ u.pin = last'.pin
                   /\ u.attempts <= max_attempts
                   /\ now' - u.updated_at <= token_expiration]_vars

\* The identity provider has just refused the change for a record that counts
\* a wrong pin, and the record is still in the table.
C12_Witness ==
    /\ Redemption
    /\ last.status = 500
    /\ last.call # {}
    /\ \E u \in store : u.token = last.token /\ u.attempts > 0 /\ u \in last.user

\* C13: a POST / whose token, password, confirm_password or pin is missing or
\* empty, or whose password differs from confirm_password, answers 400 and
\* changes nothing: no row is looked up, no attempt is counted, the identity
\* provider is not called and no token is redeemed, whatever record the token
\* names and whatever pin is sent.
C13_BadFormChangesNothing ==
    [][\A token \in Tokens \cup {Empty}, password \in Passwords \cup {Empty},
          confirm_password \in Passwords \cup {Empty}, pin \in Pins \cup {Empty} :
          (/\ set_password(token, password, confirm_password, pin)
           /\ \/ token = Empty \/ password = Empty
              \/ confirm_password = Empty \/ pin = Empty
              \/ password # confirm_password)
          => /\ last'.status = 400
             /\ last'.body \in {"Missing required field!", "Passwords do not match"}
             /\ last'.user = {}
             /\ last'.call = {}
             /\ store' = store
             /\ redeemed' = redeemed
             /\ minted' = minted]_vars

\* Passwords that do not match have just been refused with a wrong pin for
\* the token of a record that is expired and not locked; the record is as
\* provisioned.
C13_Witness ==
    /\ last.op = "set_password"
    /\ last.status = 400
    /\ last.body = "Passwords do not match"
    /\ \E u \in store :
          /\ u.token = last.token
          /\ u.pin # last.pin
          /\ u.attempts = 0
          /\ now - u.updated_at > token_expiration

\* C14: the token in the body of a provisioning call answered 200 is the
\* token stored for that user_id: find(token=...) with it returns a record,
\* that record has the user_id of the call, and the record of the user_id has
\* no other token; when the user_id had no record before the call, the record
\* has the pin and the password of the payload, attempts 0 and updated_at = now.
C14_ReturnedTokenIsStored ==
    (last.op = "add" /\ last.status = 200) =>
        /\ last.token # Empty
        /\ \A found \in find_token(store, last.token) :
              /\ found # {}
              /\ \A u \in found : u.user_id = last.user_id
        /\ \A u \in store : u.user_id = last.user_id => u.token = last.token
        /\ last.user = {} =>
              \A found \in find_token(store, last.token) :
                 found = {[user_id |-> last.user_id,
                           token |-> last.token,
                           pin |-> last.pin,
                           password |-> last.password,
                           attempts |-> 0,
                           updated_at |-> now]}

\* A user_id whose token was redeemed has just been provisioned anew, at a
\* time that is not the initial one.
C14_Witness ==
    /\ last.op = "add"
    /\ last.status = 200
    /\ last.user = {}
    /\ now > 0
    /\ \E t \in Tokens : redeemed[t] = 1
    /\ \E u \in store : u.token = last.token /\ u.pin = last.pin

\* C15: a redemption that found a record decides on lockout first, then on
\* the pin, then on expiry.  A locked record (attempts > max_attempts) answers
\* 'Account locked', expired or not, right pin or wrong, and counts nothing.
\* A record that is not locked answers 'Wrong pin' to a wrong pin, expired or
\* not, and counts the attempt.  'Token expired' is answered exactly when the
\* record is not locked, the pin is right and now - updated_at >
\* token_expiration.
C15_ChecksInOrder ==
    Redemption =>
        /\ last.user = {} <=> last.body = "Token not found"
        /\ \A u \in last.user :
              /\ u.attempts > max_attempts <=>
                    last.body = "Account locked, too many wrong attempts!"
              /\ u.attempts > max_attempts => u \in store
              /\ (u.attempts <= max_attempts /\ last.pin # u.pin) <=>
                    last.body = "Wrong pin"
              /\ last.body = "Wrong pin" =>
                    [u EXCEPT !.attempts = @ + 1] \in store
              /\ (/\ u.attempts <= max_attempts
                  /\ last.pin = u.pin
                  /\ now - u.updated_at > token_expiration) <=>
                    last.body = "Token expired"

\* A wrong pin has just been counted against a record that is expired.
C15_Witness ==
    /\ Redemption
    /\ last.body = "Wrong pin"
    /\ \E u \in last.user :
          /\ now - u.updated_at > token_expiration
          /\ [u EXCEPT !.attempts = @ + 1] \in store

\* A record that is locked and expired has just refused a wrong pin as locked.
C15_WitnessLocked ==
    /\ Redemption
    /\ last.body = "Account locked, too many wrong attempts!"
    /\ \E u \in last.user :
          /\ now - u.updated_at > token_expiration
          /\ u.pin # last.pin

\* Token t was put into the table, was not redeemed, and names no record:
\* the record that had it has been provisioned again.
Superseded(t) ==
    /\ t <= minted
    /\ redeemed[t] = 0
    /\ \A u \in store : u.token # t

\* C16: a provisioning call answered 200 for a user_id that had a record with
\* token T_old leaves no record with T_old: find(token=T_old) returns None and
\* the record of the user_id has the token returned; T_old never names a
\* record again; a redemption with it answers 404 'Token not found', with the
\* pin of the record as with any other, and changes nothing; a redemption
\* answered 200 used the token that the record had at that time.
C16_OldTokenIsDead ==
    [][/\ (last'.op = "add" /\ last'.status = 200) =>
             \A u \in last'.user :
                /\ Superseded(u.token)'
                /\ find_token(store', u.token) = {{}}
                /\ \E v \in store' : v.user_id = u.user_id /\ v.token = last'.token
       /\ \A t \in Tokens : Superseded(t) =>
             /\ Superseded(t)'
             /\ (last'.op = "set_password" /\ last'.status # 400 /\ last'.token = t)
                   => /\ last'.status = 404
                      /\ last'.body = "Token not found"
                      /\ last'.call = {}
                      /\ store' = store
                      /\ redeemed' = redeemed
       /\ (last'.op = "set_password" /\ last'.status = 200) =>
             \E u \in store : u.token = last'.token]_vars

\* The old token has just been refused although it came with the pin of the
\* record, which is neither locked nor expired.
C16_Witness ==
    /\ Redemption
    /\ last.status = 404
    /\ Superseded(last.token)
    /\ \E u \in store :
          /\ u.pin = last.pin
          /\ u.attempts <= max_attempts
          /\ now - u.updated_at <= token_expiration

\* C17: with the handlers run one at a time, every record in the table has
\* 0 <= attempts <= max_attempts + 1, and a redemption that found a record
\* with attempts > max_attempts has left that record exactly as it was, with
\* the right pin as with a wrong one.
C17_AttemptsBounded ==
    /\ \A u \in store : 0 <= u.attempts /\ u.attempts <= max_attempts + 1
    /\ Redemption =>
          \A u \in last.user : u.attempts > max_attempts =>
             /\ u \in store
             /\ \A v \in store : v.user_id = u.user_id => v.attempts = u.attempts

\* A record at attempts = max_attempts + 1 has just been sent a wrong pin and
\* is still at max_attempts + 1.
C17_Witness ==
    /\ Redemption
    /\ \E u \in last.user :
          /\ u.attempts = max_attempts + 1
          /\ u.pin # last.pin
          /\ u \in store

\* C18: between two provisionings of a user_id at most max_attempts + 1
\* redemptions are answered 'Wrong pin', also when the steps of redemptions
\* of one token interleave; and no increment is lost: while the record is in
\* the table and no stale write is pending, its attempts is the number of
\* 'Wrong pin' answers given since it was provisioned.
C18_WrongPinsBounded ==
    /\ \A user_id \in Users : wrong_pins[user_id] <= max_attempts + 1
    /\ (\A w \in Workers : sess[w].pc \in {"idle", "done"})
       => \A u \in store :
             wrong_pins[u.user_id] <= max_attempts + 1
                => u.attempts >= wrong_pins[u.user_id]

====
